---- MODULE Spec2Model ----
(***************************************************************************)
(* The stock scanner (stock_scanner.py): run_scan reads the bar table and  *)
(* the ticker-profile table of the store, computes the rolling metrics of  *)
(* every ticker, takes one latest row per ticker, filters it in three      *)
(* stages, ranks the survivors by gain quantiles and exports a watchlist.  *)
(*                                                                         *)
(* Numbers are exact rationals <<n, d>> with d > 0 in lowest terms; the    *)
(* float NaN ("no value") is the empty tuple.  A data frame is a sequence  *)
(* of records (its rows in order).                                         *)
(*                                                                         *)
(* A second specification, MaintenanceSpec, covers the scripts that fill   *)
(* the store: get_ticker_symbols.py and market_data_fetcher.py.            *)
(***************************************************************************)
EXTENDS Integers, Sequences, FiniteSets

(***************************************************************************)
(* Bounds of the model.  The rolling windows of the program (20, 21, 63,   *)
(* 126 and 200 bars) are scaled down, keeping their order, so that every   *)
(* history up to MaxBars bars can be enumerated.                           *)
(***************************************************************************)
MaxBars == 6
\* ADR_DAYS, stock_scanner.py line 20 (20 in the program)
ADR_DAYS == 2
\* GAIN_DAYS_1M, stock_scanner.py line 21 (21 in the program)
GAIN_DAYS_1M == 3
\* GAIN_DAYS_3M, stock_scanner.py line 22 (63 in the program)
GAIN_DAYS_3M == 4
\* GAIN_DAYS_6M, stock_scanner.py line 23 (126 in the program)
GAIN_DAYS_6M == 5
\* MA_DAYS_LONG, stock_scanner.py line 24 (200 in the program)
MA_DAYS_LONG == 6
\* the dates of the bars a download can hold are 1..MaxDate
MaxDate == 2
\* BATCH_SIZE, market_data_fetcher.py line 18 (500 in the program)
BATCH_SIZE == 2

(***************************************************************************)
(* Scan parameters of the program, with their values.                      *)
(***************************************************************************)
MIN_DOLLAR_VOLUME == 5000000
MIN_ADR_PERCENT == 7
MIN_CLOSE_PRICE == 2
AVG_VOL_DAYS == 1
\* 0.50, 0.60 and 0.60 as fractions
GAIN_PERCENTILE_1M == <<1, 2>>
GAIN_PERCENTILE_3M == <<3, 5>>
GAIN_PERCENTILE_6M == <<3, 5>>
USE_MA200_FILTER == TRUE
EXCLUDED_SECTORS == {}
EXCLUDED_INDUSTRIES == {"Biotechnology"}

(***************************************************************************)
(* Exact arithmetic with NaN propagation.                                  *)
(***************************************************************************)
NaN == <<>>

isna(v) == v = NaN

Abs(n) == IF n < 0 THEN -n ELSE n

RECURSIVE GCD(_, _)
GCD(a, b) == IF b = 0 THEN a ELSE GCD(b, a % b)

Norm(n, d) ==
    LET g == GCD(Abs(n), d)
    IN  <<n \div g, d \div g>>

R(n) == <<n, 1>>

\* a + b, a - b, a * b, a / b of floats: NaN when an operand is NaN
RAdd(a, b) ==
    IF isna(a) \/ isna(b) THEN NaN
    ELSE Norm(a[1] * b[2] + b[1] * a[2], a[2] * b[2])

RSub(a, b) ==
    IF isna(a) \/ isna(b) THEN NaN
    ELSE Norm(a[1] * b[2] - b[1] * a[2], a[2] * b[2])

RMul(a, b) ==
    IF isna(a) \/ isna(b) THEN NaN
    ELSE Norm(a[1] * b[1], a[2] * b[2])

\* the model's prices are positive, so no divisor is zero
RDiv(a, b) ==
    IF isna(a) \/ isna(b) THEN NaN
    ELSE IF b[1] < 0 THEN Norm(-(a[1] * b[2]), -(a[2] * b[1]))
    ELSE Norm(a[1] * b[2], a[2] * b[1])

\* a < b on two numbers (never called with NaN)
RLess(a, b) == a[1] * b[2] < b[1] * a[2]

\* a >= b with NaN read as 0, as after fillna(0)
GE_nan_as_zero(a, b) ==
    LET x == IF isna(a) THEN R(0) ELSE a
        y == IF isna(b) THEN R(0) ELSE b
    IN  ~RLess(x, y)

\* the comparison a >= b of a float column: False when either side is NaN
GE(a, b) ==
    /\ ~isna(a)
    /\ ~isna(b)
    /\ ~RLess(a, b)

(***************************************************************************)
(* The store: table daily_data (primary key ticker, date) and table        *)
(* tickers_exchange (one row per ticker).  NULL text is the string NULL.   *)
(***************************************************************************)
\* the tickers, in ascending (lexicographic) order
TickerSeq == <<"X", "Y", "Z">>

Tickers == {TickerSeq[i] : i \in 1..Len(TickerSeq)}

TickerRank(t) == CHOOSE i \in 1..Len(TickerSeq) : TickerSeq[i] = t

\* the asset classes get_ticker_symbols.py writes, in ascending order
AssetClassSeq == <<"Fund", "Stock">>

NULL == "NULL"

\* one day's stored prices: high, low, close, volume (each may be NULL -> NaN)
Bar(h, l, c, v) == [high |-> h, low |-> l, close |-> c, volume |-> v]

BarKinds ==
    { Bar(R(2), R(1), R(2), R(3000000)),
      Bar(R(4), R(3), R(4), R(2000000)),
      Bar(R(1), R(1), R(1), R(1000000)),
      Bar(R(2), R(2), NaN, R(3000000)) }

\* the bars of the histories of the three-ticker initial states
WideKinds ==
    { Bar(R(2), R(1), R(2), R(3000000)),
      Bar(R(4), R(3), R(4), R(2000000)) }

SeqsUpTo(S, n) == UNION {[1..k -> S] : k \in 0..n}

\* every history of fewer than MaxBars bars, and the histories of MaxBars
\* bars whose bars pass the hard thresholds
Histories == SeqsUpTo(BarKinds, MaxBars - 1) \cup [1..MaxBars -> WideKinds]

\* histories of 0..MaxBars bars: a first bar, then bars of one kind
WideHistories ==
    {<<>>} \cup
    { [i \in 1..n |-> IF i = 1 THEN first ELSE rest] :
        n \in 1..MaxBars, first \in WideKinds, rest \in WideKinds }

Absent == [exchange |-> "-", asset_class |-> "-", sector |-> "-", industry |-> "-"]

ProfileKinds ==
    { [exchange |-> "NASDAQ", asset_class |-> "Stock",
       sector |-> "Technology", industry |-> "Software"],
      [exchange |-> "NYSE", asset_class |-> "Stock",
       sector |-> "Healthcare", industry |-> "Biotechnology"],
      [exchange |-> "AMEX", asset_class |-> "Fund",
       sector |-> NULL, industry |-> NULL] }

\* the rows of daily_data for the histories hist (ticker -> sequence of bars)
BarRows(hist) ==
    { [ticker |-> t, date |-> i, high |-> hist[t][i].high, low |-> hist[t][i].low,
       close |-> hist[t][i].close, volume |-> hist[t][i].volume] :
        <<t, i>> \in {p \in Tickers \X (1..MaxBars) : p[2] <= Len(hist[p[1]])} }

\* the rows of tickers_exchange for the profiles prof (ticker -> profile or Absent)
ProfileRows(prof) ==
    { [ticker |-> t, exchange |-> prof[t].exchange, asset_class |-> prof[t].asset_class,
       sector |-> prof[t].sector, industry |-> prof[t].industry] :
        t \in {u \in Tickers : prof[u] # Absent} }

(***************************************************************************)
(* Data-frame helpers.                                                     *)
(***************************************************************************)
\* df.sort_values(by=['ticker', 'date']): the key is unique, so the order of
\* the rows read from the table does not show in the result
RowBefore(r, q) ==
    \/ TickerRank(r.ticker) < TickerRank(q.ticker)
    \/ r.ticker = q.ticker /\ r.date <= q.date

RECURSIVE sort_values(_)
sort_values(rows) ==
    IF rows = {} THEN <<>>
    ELSE LET first == CHOOSE r \in rows : \A q \in rows : RowBefore(r, q)
         IN  <<first>> \o sort_values(rows \ {first})

\* the rows of one group of df.groupby('ticker'), in the frame's order
Group(df, t) == SelectSeq(df, LAMBDA r : r.ticker = t)

\* the group keys of df.groupby('ticker'), ascending
GroupKeys(df) ==
    SelectSeq(TickerSeq, LAMBDA t : \E i \in 1..Len(df) : df[i].ticker = t)

RECURSIVE SumSeq(_)
SumSeq(xs) == IF xs = <<>> THEN R(0) ELSE RAdd(xs[1], SumSeq(Tail(xs)))

RECURSIVE MinSeq(_)
MinSeq(xs) ==
    IF Len(xs) = 1 THEN xs[1]
    ELSE LET m == MinSeq(Tail(xs))
         IN  IF RLess(m, xs[1]) THEN m ELSE xs[1]

\* the non-NaN observations of the trailing window of `window` rows ending at i
Observations(xs, i, window) ==
    LET first == IF i - window + 1 < 1 THEN 1 ELSE i - window + 1
    IN  SelectSeq(SubSeq(xs, first, i), LAMBDA v : ~isna(v))

\* x.rolling(window, min_periods).sum() / .mean() / .min() at row i: NaN until
\* the window holds min_periods observations
rolling_sum(xs, i, window, min_periods) ==
    LET obs == Observations(xs, i, window)
    IN  IF Len(obs) < min_periods THEN NaN ELSE SumSeq(obs)

rolling_mean(xs, i, window, min_periods) ==
    LET obs == Observations(xs, i, window)
    IN  IF Len(obs) < min_periods THEN NaN ELSE RDiv(SumSeq(obs), R(Len(obs)))

\* the rolling minimum with min_periods=1: a value from a partial window
rolling_min_partial(xs, i, window, min_periods) ==
    LET obs == Observations(xs, i, window)
    IN  IF Len(obs) < 1 THEN NaN ELSE MinSeq(obs)

rolling_min(xs, i, window, min_periods) ==
    LET obs == Observations(xs, i, window)
    IN  IF Len(obs) < min_periods THEN NaN ELSE MinSeq(obs)

\* (close / min_low - 1) * 100
Gain(close, min_low) == RMul(RSub(RDiv(close, min_low), R(1)), R(100))

\* the rows of one ticker with the derived columns of lines 102-125.  The
\* guard 1e-9 added to low moves high / low by less than 1e-9 of itself, below
\* what any comparison of the model's prices can see, and is left out.
DerivedGroup(g) ==
    LET close == [i \in 1..Len(g) |-> g[i].close]
        low == [i \in 1..Len(g) |-> g[i].low]
        dollar_volume == [i \in 1..Len(g) |-> RMul(g[i].close, g[i].volume)]
        daily_range_factor == [i \in 1..Len(g) |-> RDiv(g[i].high, g[i].low)]
    IN  [i \in 1..Len(g) |->
          [ticker |-> g[i].ticker, date |-> g[i].date, high |-> g[i].high,
           low |-> g[i].low, close |-> g[i].close, volume |-> g[i].volume,
           ma200 |-> rolling_mean(close, i, MA_DAYS_LONG, MA_DAYS_LONG),
           dollar_volume |-> dollar_volume[i],
           avg_dollar_volume |->
               rolling_mean(dollar_volume, i, AVG_VOL_DAYS, AVG_VOL_DAYS),
           daily_range_factor |-> daily_range_factor[i],
           adr_percent |->
               RMul(RSub(RDiv(rolling_sum(daily_range_factor, i, ADR_DAYS, ADR_DAYS),
                              R(ADR_DAYS)), R(1)), R(100)),
           gain_1m |-> Gain(close[i], rolling_min(low, i, GAIN_DAYS_1M, GAIN_DAYS_1M)),
           gain_3m |-> Gain(close[i], rolling_min(low, i, GAIN_DAYS_3M, GAIN_DAYS_3M)),
           gain_6m |-> Gain(close[i], rolling_min(low, i, GAIN_DAYS_6M, GAIN_DAYS_6M))]]

\* the derived columns computed over the whole frame, without groupby('ticker')
ConcatGroups_ungrouped(df, keys) ==
    IF keys = <<>> THEN <<>> ELSE DerivedGroup(df)

RECURSIVE ConcatGroups(_, _)
ConcatGroups(df, keys) ==
    IF keys = <<>> THEN <<>>
    ELSE DerivedGroup(Group(df, keys[1])) \o ConcatGroups(df, Tail(keys))

\* lines 99-125: the sorted frame with its derived columns
CalculateMetrics(rows) ==
    LET df == sort_values(rows)
    IN  ConcatGroups(df, GroupKeys(df))

\* the last non-NaN value of a column of a group, NaN when there is none
LastValid(g, col) ==
    LET valid == SelectSeq(g, LAMBDA r : ~isna(r[col]))
    IN  IF valid = <<>> THEN NaN ELSE valid[Len(valid)][col]

\* one row of df.groupby('ticker').last(): per column, the last value that is
\* not null (date is never null)
LastOfGroup(g) ==
    [ticker |-> g[1].ticker, date |-> g[Len(g)].date,
     high |-> LastValid(g, "high"), low |-> LastValid(g, "low"),
     close |-> LastValid(g, "close"), volume |-> LastValid(g, "volume"),
     ma200 |-> LastValid(g, "ma200"),
     dollar_volume |-> LastValid(g, "dollar_volume"),
     avg_dollar_volume |-> LastValid(g, "avg_dollar_volume"),
     daily_range_factor |-> LastValid(g, "daily_range_factor"),
     adr_percent |-> LastValid(g, "adr_percent"),
     gain_1m |-> LastValid(g, "gain_1m"), gain_3m |-> LastValid(g, "gain_3m"),
     gain_6m |-> LastValid(g, "gain_6m")]

\* line 127: df.groupby('ticker').last().reset_index()
LatestData(df) ==
    LET keys == GroupKeys(df)
    IN  [k \in 1..Len(keys) |-> LastOfGroup(Group(df, keys[k]))]

\* a row of latest_data joined with its row of ticker_info_df
Joined(l, p) ==
    [ticker |-> l.ticker, date |-> l.date, high |-> l.high, low |-> l.low,
     close |-> l.close, volume |-> l.volume, ma200 |-> l.ma200,
     dollar_volume |-> l.dollar_volume, avg_dollar_volume |-> l.avg_dollar_volume,
     daily_range_factor |-> l.daily_range_factor, adr_percent |-> l.adr_percent,
     gain_1m |-> l.gain_1m, gain_3m |-> l.gain_3m, gain_6m |-> l.gain_6m,
     exchange |-> p.exchange, asset_class |-> p.asset_class,
     sector |-> p.sector, industry |-> p.industry]

\* line 129: pd.merge(latest_data, ticker_info_df, on='ticker'), an inner join
\* in the order of the left frame
Merge(latest, info) ==
    LET matched == SelectSeq(latest, LAMBDA l : \E p \in info : p.ticker = l.ticker)
    IN  [k \in 1..Len(matched) |->
          Joined(matched[k], CHOOSE p \in info : p.ticker = matched[k].ticker)]

(***************************************************************************)
(* The state of one run of run_scan over a store.                          *)
(***************************************************************************)
VARIABLES
    daily_data,          \* the store's bar table: a set of rows
    tickers_exchange,    \* the store's ticker-profile table: a set of rows
    pc,                  \* the position of run_scan
    df,                  \* the rows read (a set), then the sorted frame with its metrics
    ticker_info_df,      \* the profiles read
    latest_data,         \* line 127
    merged_data,         \* line 129
    filtered_stocks,     \* lines 131-153
    gain_1m_threshold,   \* line 160
    gain_3m_threshold,   \* line 161
    gain_6m_threshold,   \* line 162
    final_results,       \* lines 173-174
    watchlist_file,      \* the text written to scan_results_<date>.txt, or NoFile
    stdout,              \* the messages printed, in order
    steps,               \* the steps of run_scan that have run
    tickers_exchange_columns,  \* the columns of table tickers_exchange, {} without the table
    tickers,             \* market_data_fetcher.py line 132: the tickers of a fetch run
    batch_index          \* the loop variable i of line 139

vars ==
    <<daily_data, tickers_exchange, pc, df, ticker_info_df, latest_data, merged_data,
      filtered_stocks, gain_1m_threshold, gain_3m_threshold, gain_6m_threshold,
      final_results, watchlist_file, stdout, steps, tickers_exchange_columns, tickers,
      batch_index>>

\* the state of the scripts that maintain the store
maintenance == <<tickers_exchange_columns, tickers, batch_index>>

NoFile == "<no file>"

(***************************************************************************)
(* The three filter stages (lines 131-153), as functions of the frame and  *)
(* of the scan parameters.                                                 *)
(***************************************************************************)
\* stage 1 over a frame whose NaN were filled with 0
HardThresholds_fillna(rows, min_dollar_volume, min_adr_percent, min_close_price) ==
    SelectSeq(rows, LAMBDA r :
        /\ GE_nan_as_zero(r.avg_dollar_volume, R(min_dollar_volume))
        /\ GE_nan_as_zero(r.adr_percent, R(min_adr_percent))
        /\ GE_nan_as_zero(r.close, R(min_close_price)))

\* stage 1, lines 131-135
HardThresholds(rows, min_dollar_volume, min_adr_percent, min_close_price) ==
    SelectSeq(rows, LAMBDA r :
        /\ GE(r.avg_dollar_volume, R(min_dollar_volume))
        /\ GE(r.adr_percent, R(min_adr_percent))
        /\ GE(r.close, R(min_close_price)))

\* stage 2 with the mask of the unfiltered frame applied by row position
ExcludeCategories_by_position(rows, excluded_sectors, excluded_industries) ==
    LET keep == {i \in 1..Len(rows) :
                    \/ i > Len(merged_data)
                    \/ /\ merged_data[i].sector \notin excluded_sectors
                       /\ merged_data[i].industry \notin excluded_industries}
        RECURSIVE Pick(_)
        Pick(i) ==
            IF i > Len(rows) THEN <<>>
            ELSE (IF i \in keep THEN <<rows[i]>> ELSE <<>>) \o Pick(i + 1)
    IN  Pick(1)

\* stage 2, lines 143-146: an empty list skips its filter
ExcludeCategories(rows, excluded_sectors, excluded_industries) ==
    LET by_sector ==
            IF excluded_sectors # {}
            THEN SelectSeq(rows, LAMBDA r : r.sector \notin excluded_sectors)
            ELSE rows
    IN  IF excluded_industries # {}
        THEN SelectSeq(by_sector, LAMBDA r : r.industry \notin excluded_industries)
        ELSE by_sector

\* stage 3 without the exemption of rows whose ma200 is NaN
TrendFilter_no_exemption(rows, use_ma200_filter) ==
    IF use_ma200_filter
    THEN SelectSeq(rows, LAMBDA r : GE(r.close, r.ma200))
    ELSE rows

\* stage 3, lines 149-153
TrendFilter(rows, use_ma200_filter) ==
    IF use_ma200_filter
    THEN SelectSeq(rows, LAMBDA r : GE(r.close, r.ma200) \/ isna(r.ma200))
    ELSE rows

(***************************************************************************)
(* Quantile thresholds and ranking (lines 160-174).                        *)
(***************************************************************************)
RECURSIVE SortAscending(_)
SortAscending(xs) ==
    IF xs = <<>> THEN <<>>
    ELSE LET k == CHOOSE i \in 1..Len(xs) : \A j \in 1..Len(xs) : ~RLess(xs[j], xs[i])
         IN  <<xs[k]>> \o
             SortAscending([i \in 1..(Len(xs) - 1) |-> IF i < k THEN xs[i] ELSE xs[i + 1]])

Column(rows, col) == [i \in 1..Len(rows) |-> rows[i][col]]

\* the quantile counted from the largest value: the (1 - q)-quantile
quantile_from_top(values, q) ==
    LET a == SortAscending(SelectSeq(values, LAMBDA v : ~isna(v)))
        n == Len(a)
        pos == (n - 1) * (q[2] - q[1])
        lo == pos \div q[2]
        hi == IF lo + 1 > n - 1 THEN n - 1 ELSE lo + 1
        frac == Norm(pos % q[2], q[2])
    IN  IF n = 0 THEN NaN
        ELSE RAdd(a[lo + 1], RMul(RSub(a[hi + 1], a[lo + 1]), frac))

\* Series.quantile(q), q = <<num, den>>: NaN values are skipped, the result is
\* interpolated linearly between the two nearest ranks, and NaN if nothing is left
quantile(values, q) ==
    LET a == SortAscending(SelectSeq(values, LAMBDA v : ~isna(v)))
        n == Len(a)
        pos == (n - 1) * q[1]
        lo == pos \div q[2]
        hi == IF lo + 1 > n - 1 THEN n - 1 ELSE lo + 1
        frac == Norm(pos % q[2], q[2])
    IN  IF n = 0 THEN NaN
        ELSE RAdd(a[lo + 1], RMul(RSub(a[hi + 1], a[lo + 1]), frac))

\* filtered_stocks[filtered_stocks[col] >= threshold]
TopGainers(rows, col, threshold) ==
    SelectSeq(rows, LAMBDA r : GE(r[col], threshold))

\* the concatenation left as it is
drop_duplicates_skipped(rows) == rows

\* drop_duplicates(subset=['ticker']): the first row of every ticker is kept
drop_duplicates(rows) ==
    LET keep == {i \in 1..Len(rows) : \A j \in 1..(i - 1) : rows[j].ticker # rows[i].ticker}
        RECURSIVE Pick(_)
        Pick(i) ==
            IF i > Len(rows) THEN <<>>
            ELSE (IF i \in keep THEN <<rows[i]>> ELSE <<>>) \o Pick(i + 1)
    IN  Pick(1)

\* the rows that qualify in all three horizons
UnionOfGainers_intersection(rows, thr_1m, thr_3m, thr_6m) ==
    TopGainers(TopGainers(TopGainers(rows, "gain_1m", thr_1m), "gain_3m", thr_3m),
               "gain_6m", thr_6m)

\* line 173: the three horizons' qualifiers, concatenated and deduplicated
UnionOfGainers(rows, thr_1m, thr_3m, thr_6m) ==
    drop_duplicates(TopGainers(rows, "gain_1m", thr_1m)
                    \o TopGainers(rows, "gain_3m", thr_3m)
                    \o TopGainers(rows, "gain_6m", thr_6m))

\* whether `sorted` is in descending order of gain_1m with the NaN rows last
IsDescending(sorted) ==
    \A i, j \in 1..Len(sorted) :
        i < j => \/ isna(sorted[j].gain_1m)
                 \/ /\ ~isna(sorted[i].gain_1m)
                    /\ ~RLess(sorted[i].gain_1m, sorted[j].gain_1m)

Permutations(n) == {f \in [1..n -> 1..n] : \A i, j \in 1..n : f[i] = f[j] => i = j}

\* line 174: the results sort_values(by='gain_1m', ascending=False) may return;
\* the default sort is not stable, so rows with equal keys come in any order
SortedByGain(rows) ==
    LET all == {[i \in 1..Len(rows) |-> rows[f[i]]] : f \in Permutations(Len(rows))}
    IN  {s \in all : IsDescending(s)}

(***************************************************************************)
(* generate_tradingview_watchlist (lines 43-75).                           *)
(***************************************************************************)
RECURSIVE Join(_, _)
Join(parts, sep) ==
    IF parts = <<>> THEN ""
    ELSE IF Len(parts) = 1 THEN parts[1]
    ELSE parts[1] \o sep \o Join(Tail(parts), sep)

\* groupby(..., sort=False): the keys in order of first appearance
AssetClassKeys_by_appearance(results_df) ==
    LET RECURSIVE Seen(_)
        Seen(i) ==
            IF i > Len(results_df) THEN <<>>
            ELSE (IF \A j \in 1..(i - 1) :
                       results_df[j].asset_class # results_df[i].asset_class
                  THEN <<results_df[i].asset_class>> ELSE <<>>) \o Seen(i + 1)
    IN  Seen(1)

\* results_df.groupby('asset_class'): the keys present, ascending
AssetClassKeys(results_df) ==
    SelectSeq(AssetClassSeq,
              LAMBDA a : \E i \in 1..Len(results_df) : results_df[i].asset_class = a)

\* lines 58-63: one group's part of the watchlist
WatchlistPart(results_df, asset_class) ==
    LET group_df == SelectSeq(results_df, LAMBDA r : r.asset_class = asset_class)
        formatted_tickers ==
            [i \in 1..Len(group_df) |-> group_df[i].exchange \o ":" \o group_df[i].ticker]
    IN  "###" \o asset_class \o "s" \o "," \o Join(formatted_tickers, ",")

\* lines 54-65: the text of the watchlist
WatchlistString(results_df) ==
    LET keys == AssetClassKeys(results_df)
    IN  Join([k \in 1..Len(keys) |-> WatchlistPart(results_df, keys[k])], ",")

(***************************************************************************)
(* The schema of table tickers_exchange.                                   *)
(***************************************************************************)
\* the columns of CREATE TABLE tickers_exchange
TableColumns == {"ticker", "exchange", "asset_class", "sector", "industry"}

\* the columns of the frame get_all_tickers_with_mapping returns
FrameColumns == {"ticker", "exchange", "asset_class"}

NoTable == {}

\* the columns the profile query of run_scan names
QueryColumns == {"ticker", "exchange", "asset_class", "sector", "industry"}

\* whether SELECT ticker, exchange, asset_class, sector, industry succeeds
ProfileQuerySucceeds == QueryColumns \subseteq tickers_exchange_columns

(***************************************************************************)
(* The stores a run starts from, and the steps of run_scan.                *)
(***************************************************************************)
\* a store with any history of one ticker, with or without a profile
StoreOneTicker ==
    \E h \in Histories, p \in ProfileKinds \cup {Absent} :
        /\ daily_data = BarRows([t \in Tickers |-> IF t = "X" THEN h ELSE <<>>])
        /\ tickers_exchange = ProfileRows([t \in Tickers |-> IF t = "X" THEN p ELSE Absent])

\* histories of 0, 1, MaxBars - 1 and MaxBars bars of one kind
UniformHistories ==
    { [i \in 1..n |-> Bar(R(2), R(1), R(2), R(3000000))] :
        n \in {0, 1, MaxBars - 1, MaxBars} }

\* a store with bars of up to three tickers: X a stock, Y a fund, Z a stock
\* or without a profile
StoreThreeTickers ==
    \E hx \in WideHistories, hy \in WideHistories, hz \in UniformHistories,
       px \in {p \in ProfileKinds : p.asset_class = "Stock"},
       py \in {p \in ProfileKinds : p.asset_class = "Fund"},
       pz \in {p \in ProfileKinds : p.exchange = "NASDAQ"} \cup {Absent} :
        /\ daily_data =
              BarRows([t \in Tickers |-> IF t = "X" THEN hx ELSE IF t = "Y" THEN hy ELSE hz])
        /\ tickers_exchange =
              ProfileRows([t \in Tickers |-> IF t = "X" THEN px ELSE IF t = "Y" THEN py ELSE pz])

Init ==
    /\ StoreOneTicker \/ StoreThreeTickers
    /\ pc = "start"
    /\ df = {}
    /\ ticker_info_df = {}
    /\ latest_data = <<>>
    /\ merged_data = <<>>
    /\ filtered_stocks = <<>>
    /\ gain_1m_threshold = NaN
    /\ gain_3m_threshold = NaN
    /\ gain_6m_threshold = NaN
    /\ final_results = <<>>
    /\ watchlist_file = NoFile
    /\ stdout = <<"Starting stock scan...">>
    /\ steps = {}
    /\ tickers_exchange_columns = TableColumns
    /\ tickers = <<>>
    /\ batch_index = 0

\* lines 84-88: both tables are read
LoadData ==
    /\ pc = "start"
    /\ ProfileQuerySucceeds
    /\ df' = daily_data
    /\ ticker_info_df' = tickers_exchange
    /\ pc' = "loaded"
    /\ steps' = steps \cup {"load"}
    /\ UNCHANGED <<maintenance, daily_data, tickers_exchange, latest_data, merged_data, filtered_stocks,
                   gain_1m_threshold, gain_3m_threshold, gain_6m_threshold,
                   final_results, watchlist_file, stdout>>

\* the except branch without its return
LoadFails_continue(bars_read) ==
    /\ pc = "start"
    /\ df' = IF bars_read THEN daily_data ELSE df
    /\ pc' = "loaded"
    /\ stdout' = Append(stdout, "Error loading data from database")
    /\ UNCHANGED <<maintenance, daily_data, tickers_exchange, ticker_info_df, latest_data, merged_data,
                   filtered_stocks, gain_1m_threshold, gain_3m_threshold,
                   gain_6m_threshold, final_results, watchlist_file, steps>>

\* lines 84-91: reading daily_data (bars_read = FALSE) or tickers_exchange
\* (bars_read = TRUE) raises; the error is printed and run_scan returns
LoadFails(bars_read) ==
    /\ pc = "start"
    /\ df' = IF bars_read THEN daily_data ELSE df
    /\ pc' = "done"
    /\ stdout' = Append(stdout, "Error loading data from database")
    /\ UNCHANGED <<maintenance, daily_data, tickers_exchange, ticker_info_df, latest_data, merged_data,
                   filtered_stocks, gain_1m_threshold, gain_3m_threshold,
                   gain_6m_threshold, final_results, watchlist_file, steps>>

\* lines 93-95
DatabaseEmpty ==
    /\ pc = "loaded"
    /\ df = {}
    /\ pc' = "done"
    /\ stdout' = Append(stdout, "Database is empty. Please run data_fetcher.py first.")
    /\ UNCHANGED <<maintenance, daily_data, tickers_exchange, df, ticker_info_df, latest_data,
                   merged_data, filtered_stocks, gain_1m_threshold, gain_3m_threshold,
                   gain_6m_threshold, final_results, watchlist_file, steps>>

\* lines 97-125
CalcMetrics ==
    /\ pc = "loaded"
    /\ df # {}
    /\ df' = CalculateMetrics(df)
    /\ pc' = "metrics"
    /\ stdout' = Append(stdout, "Calculating metrics for all stocks...")
    /\ steps' = steps \cup {"metrics"}
    /\ UNCHANGED <<maintenance, daily_data, tickers_exchange, ticker_info_df, latest_data, merged_data,
                   filtered_stocks, gain_1m_threshold, gain_3m_threshold,
                   gain_6m_threshold, final_results, watchlist_file>>

\* lines 127-129
ExtractSnapshots ==
    /\ pc = "metrics"
    /\ latest_data' = LatestData(df)
    /\ merged_data' = Merge(latest_data', ticker_info_df)
    /\ pc' = "snapshots"
    /\ steps' = steps \cup {"snapshot"}
    /\ UNCHANGED <<maintenance, daily_data, tickers_exchange, df, ticker_info_df, filtered_stocks,
                   gain_1m_threshold, gain_3m_threshold, gain_6m_threshold,
                   final_results, watchlist_file, stdout>>

\* lines 131-139: stage 1; an empty result ends the run
Stage1 ==
    /\ pc = "snapshots"
    /\ filtered_stocks' =
           HardThresholds(merged_data, MIN_DOLLAR_VOLUME, MIN_ADR_PERCENT, MIN_CLOSE_PRICE)
    /\ steps' = steps \cup {"stage1"}
    /\ IF filtered_stocks' = <<>>
       THEN /\ pc' = "done"
            /\ stdout' = Append(stdout,
                   "No stocks passed the initial filters (Volume, ADR, Price).")
       ELSE /\ pc' = "stage1"
            /\ UNCHANGED stdout
    /\ UNCHANGED <<maintenance, daily_data, tickers_exchange, df, ticker_info_df, latest_data,
                   merged_data, gain_1m_threshold, gain_3m_threshold, gain_6m_threshold,
                   final_results, watchlist_file>>

\* lines 143-146: stage 2
Stage2 ==
    /\ pc = "stage1"
    /\ filtered_stocks' =
           ExcludeCategories(filtered_stocks, EXCLUDED_SECTORS, EXCLUDED_INDUSTRIES)
    /\ pc' = "stage2"
    /\ steps' = steps \cup {"exclusion"}
    /\ UNCHANGED <<maintenance, daily_data, tickers_exchange, df, ticker_info_df, latest_data,
                   merged_data, gain_1m_threshold, gain_3m_threshold, gain_6m_threshold,
                   final_results, watchlist_file, stdout>>

\* lines 149-157: stage 3 and the count of rows stages 2 and 3 removed
\* (initial_count, line 141, is the length of stage 1's result)
Stage3 ==
    /\ pc = "stage2"
    /\ filtered_stocks' = TrendFilter(filtered_stocks, USE_MA200_FILTER)
    /\ pc' = "stage3"
    /\ steps' = steps \cup {"trend"}
    /\ LET initial_count ==
               Len(HardThresholds(merged_data, MIN_DOLLAR_VOLUME, MIN_ADR_PERCENT,
                                  MIN_CLOSE_PRICE))
           excluded_count == initial_count - Len(filtered_stocks')
       IN  stdout' = IF excluded_count > 0
                     THEN Append(stdout, "Excluded stocks based on sector and/or MA200 criteria.")
                     ELSE stdout
    /\ UNCHANGED <<maintenance, daily_data, tickers_exchange, df, ticker_info_df, latest_data,
                   merged_data, gain_1m_threshold, gain_3m_threshold, gain_6m_threshold,
                   final_results, watchlist_file>>

\* lines 160-166
ComputeThresholds ==
    /\ pc = "stage3"
    /\ gain_1m_threshold' = quantile(Column(filtered_stocks, "gain_1m"), GAIN_PERCENTILE_1M)
    /\ gain_3m_threshold' = quantile(Column(filtered_stocks, "gain_3m"), GAIN_PERCENTILE_3M)
    /\ gain_6m_threshold' = quantile(Column(filtered_stocks, "gain_6m"), GAIN_PERCENTILE_6M)
    /\ pc' = "thresholds"
    /\ steps' = steps \cup {"thresholds"}
    /\ stdout' = Append(stdout, "Gainer Thresholds")
    /\ UNCHANGED <<maintenance, daily_data, tickers_exchange, df, ticker_info_df, latest_data,
                   merged_data, filtered_stocks, final_results, watchlist_file>>

\* the ranking taken over the unfiltered Snapshots
Rank_over_merged_data ==
    /\ pc = "thresholds"
    /\ final_results' \in
           SortedByGain(UnionOfGainers(merged_data, gain_1m_threshold,
                                       gain_3m_threshold, gain_6m_threshold))
    /\ pc' = "ranked"
    /\ steps' = steps \cup {"ranking"}
    /\ UNCHANGED <<maintenance, daily_data, tickers_exchange, df, ticker_info_df, latest_data,
                   merged_data, filtered_stocks, gain_1m_threshold, gain_3m_threshold,
                   gain_6m_threshold, watchlist_file, stdout>>

\* lines 168-174
Rank ==
    /\ pc = "thresholds"
    /\ final_results' \in
           SortedByGain(UnionOfGainers(filtered_stocks, gain_1m_threshold,
                                       gain_3m_threshold, gain_6m_threshold))
    /\ pc' = "ranked"
    /\ steps' = steps \cup {"ranking"}
    /\ UNCHANGED <<maintenance, daily_data, tickers_exchange, df, ticker_info_df, latest_data,
                   merged_data, filtered_stocks, gain_1m_threshold, gain_3m_threshold,
                   gain_6m_threshold, watchlist_file, stdout>>

\* the export of an empty result without the check of lines 48-50: the file
\* is written, with no text
ExportNothing_writes_file ==
    /\ pc = "ranked"
    /\ final_results = <<>>
    /\ watchlist_file' = WatchlistString(final_results)
    /\ pc' = "done"
    /\ steps' = steps \cup {"export"}
    /\ stdout' = stdout \o <<"No stocks met all the specified criteria.",
                             "Scan complete.",
                             "Generating TradingView watchlist file...",
                             "Successfully created watchlist">>
    /\ UNCHANGED <<maintenance, daily_data, tickers_exchange, df, ticker_info_df, latest_data,
                   merged_data, filtered_stocks, gain_1m_threshold, gain_3m_threshold,
                   gain_6m_threshold, final_results>>

\* lines 176-194 with lines 48-50: the results are printed; nothing to export
ExportNothing ==
    /\ pc = "ranked"
    /\ final_results = <<>>
    /\ pc' = "done"
    /\ steps' = steps \cup {"export"}
    /\ stdout' = stdout \o <<"No stocks met all the specified criteria.",
                             "Scan complete.", "No tickers to export.">>
    /\ UNCHANGED <<maintenance, daily_data, tickers_exchange, df, ticker_info_df, latest_data,
                   merged_data, filtered_stocks, gain_1m_threshold, gain_3m_threshold,
                   gain_6m_threshold, final_results, watchlist_file>>

\* lines 176-194 with lines 52-72: the results are printed and the watchlist
\* is written
ExportWatchlist ==
    /\ pc = "ranked"
    /\ final_results # <<>>
    /\ watchlist_file' = WatchlistString(final_results)
    /\ pc' = "done"
    /\ steps' = steps \cup {"export"}
    /\ stdout' = stdout \o <<"Scan Results", "Scan complete.",
                             "Generating TradingView watchlist file...",
                             "Successfully created watchlist"  >>
    /\ UNCHANGED <<maintenance, daily_data, tickers_exchange, df, ticker_info_df, latest_data,
                   merged_data, filtered_stocks, gain_1m_threshold, gain_3m_threshold,
                   gain_6m_threshold, final_results>>

\* lines 176-194 with lines 52-75: opening or writing the file raises (the
\* directory scan_results may not exist); the error is printed
ExportFails ==
    /\ pc = "ranked"
    /\ final_results # <<>>
    /\ pc' = "done"
    /\ steps' = steps \cup {"export"}
    /\ stdout' = stdout \o <<"Scan Results", "Scan complete.",
                             "Generating TradingView watchlist file...",
                             "An error occurred while generating the watchlist file"  >>
    /\ UNCHANGED <<maintenance, daily_data, tickers_exchange, df, ticker_info_df, latest_data,
                   merged_data, filtered_stocks, gain_1m_threshold, gain_3m_threshold,
                   gain_6m_threshold, final_results, watchlist_file>>

Next ==
    \/ LoadData
    \/ \E bars_read \in BOOLEAN : LoadFails(bars_read)
    \/ DatabaseEmpty
    \/ CalcMetrics
    \/ ExtractSnapshots
    \/ Stage1
    \/ Stage2
    \/ Stage3
    \/ ComputeThresholds
    \/ Rank
    \/ ExportNothing
    \/ ExportWatchlist
    \/ ExportFails

Spec == Init /\ [][Next]_vars

\* run_scan up to the metrics of lines 99-125
MetricsNext ==
    \/ LoadData
    \/ \E bars_read \in BOOLEAN : LoadFails(bars_read)
    \/ DatabaseEmpty
    \/ CalcMetrics

MetricsSpec == Init /\ [][MetricsNext]_vars

(***************************************************************************)
(* The scripts that maintain the store: get_ticker_symbols.py (the ticker  *)
(* list) and market_data_fetcher.py (the bars).  A script runs from start  *)
(* to end before another starts.  The bars table always has its primary    *)
(* key: the fetcher creates it before its first append.                    *)
(***************************************************************************)
Dates == 1..MaxDate

\* START_DATE, market_data_fetcher.py line 17: the earliest date fetched
START_DATE == CHOOSE d \in Dates : \A e \in Dates : d <= e

\* the tickers the price source has bars for; a download holds no row for the
\* others (their rows have a null open and are dropped, line 121)
Quoted == {"X", "Y"}

\* the exchange and asset class the listing files give a ticker
Listing(t) ==
    IF t = "X" THEN [exchange |-> "NASDAQ", asset_class |-> "Stock"]
    ELSE IF t = "Y" THEN [exchange |-> "AMEX", asset_class |-> "Fund"]
    ELSE [exchange |-> "NYSE", asset_class |-> "Stock"]

\* get_all_tickers_with_mapping: the frames it may return, one per set of
\* tickers listed (the empty frame also when the download fails)
TickerFrames == SUBSET Tickers

\* the rows to_sql writes for a frame; the table has no other column, a query
\* of a column added later reads NULL
FrameRows(tickers_df) ==
    { [ticker |-> t, exchange |-> Listing(t).exchange,
       asset_class |-> Listing(t).asset_class, sector |-> NULL, industry |-> NULL] :
        t \in tickers_df }

\* CREATE TABLE IF NOT EXISTS tickers_exchange
CreateIfNotExists(columns) == IF columns = NoTable THEN TableColumns ELSE columns

\* an empty database file
MaintenanceInit ==
    /\ daily_data = {}
    /\ tickers_exchange = {}
    /\ tickers_exchange_columns = NoTable
    /\ pc = "idle"
    /\ tickers = <<>>
    /\ batch_index = 0
    /\ df = {}
    /\ ticker_info_df = {}
    /\ latest_data = <<>>
    /\ merged_data = <<>>
    /\ filtered_stocks = <<>>
    /\ gain_1m_threshold = NaN
    /\ gain_3m_threshold = NaN
    /\ gain_6m_threshold = NaN
    /\ final_results = <<>>
    /\ watchlist_file = NoFile
    /\ stdout = <<>>
    /\ steps = {}

\* the variables of run_scan, which the scripts leave alone
scan ==
    <<df, ticker_info_df, latest_data, merged_data, filtered_stocks, gain_1m_threshold,
      gain_3m_threshold, gain_6m_threshold, final_results, watchlist_file, stdout, steps>>

\* get_ticker_symbols.py lines 14-34 (called at line 105)
initialize_database ==
    /\ pc = "idle"
    /\ tickers_exchange_columns' = CreateIfNotExists(tickers_exchange_columns)
    /\ pc' = "tickers_initialized"
    /\ UNCHANGED <<scan, daily_data, tickers_exchange, tickers, batch_index>>

\* get_ticker_symbols.py lines 106-108 with lines 89-102: an empty frame is
\* not saved; to_sql(if_exists='replace') drops the table and creates it
\* again from the columns of the frame
save_tickers_to_db(tickers_df) ==
    /\ pc = "tickers_initialized"
    /\ IF tickers_df = {}
       THEN UNCHANGED <<tickers_exchange, tickers_exchange_columns>>
       ELSE /\ tickers_exchange' = FrameRows(tickers_df)
            /\ tickers_exchange_columns' = FrameColumns
    /\ pc' = "idle"
    /\ UNCHANGED <<scan, daily_data, tickers, batch_index>>

\* market_data_fetcher.py lines 23-55 (called at line 231)
fetcher_initialize_database ==
    /\ pc = "idle"
    /\ tickers_exchange_columns' = CreateIfNotExists(tickers_exchange_columns)
    /\ pc' = "fetch_initialized"
    /\ UNCHANGED <<scan, daily_data, tickers_exchange, tickers, batch_index>>

\* market_data_fetcher.py lines 89-103 with lines 132-134: the tickers of the
\* table, sorted; with none the run ends
load_tickers_from_db ==
    /\ pc = "fetch_initialized"
    /\ LET loaded == SelectSeq(TickerSeq, LAMBDA t : \E p \in tickers_exchange : p.ticker = t)
       IN  IF loaded = <<>>
           THEN /\ pc' = "idle"
                /\ UNCHANGED tickers
           ELSE /\ pc' = "fetching"
                /\ tickers' = loaded
    /\ batch_index' = 0
    /\ UNCHANGED <<scan, daily_data, tickers_exchange, tickers_exchange_columns>>

\* lines 57-70: ticker -> MAX(date), for the tickers of the batch with rows
get_last_fetch_dates_for_batch(table, tickers_batch) ==
    LET stored == {t \in tickers_batch : \E r \in table : r.ticker = t}
        dates(t) == {r.date : r \in {q \in table : q.ticker = t}}
    IN  [t \in stored |-> CHOOSE d \in dates(t) : \A e \in dates(t) : e <= d]

\* the smallest of the last dates
MinLastDate(last_dates) ==
    CHOOSE d \in {last_dates[t] : t \in DOMAIN last_dates} :
        \A t \in DOMAIN last_dates : d <= last_dates[t]

\* what yf.download and reshape_batch_data may give for a batch: rows of the
\* quoted tickers of the batch, of any dates from start to today, with the
\* prices the source shows at the time of the download
Downloads(tickers_batch, start, today) ==
    { { [ticker |-> c[1], date |-> c[2], high |-> kind.high, low |-> kind.low,
         close |-> kind.close, volume |-> kind.volume] : c \in cells } :
        kind \in WideKinds,
        cells \in SUBSET ((tickers_batch \cap Quoted) \X {d \in Dates : start <= d /\ d <= today}) }

\* every downloaded row kept
rows_to_save_unfiltered(reshaped_data, last_dates) == reshaped_data

\* lines 202-207: the rows of tickers without a last date, and the rows later
\* than the last date of their ticker
rows_to_save(reshaped_data, last_dates) ==
    { row \in reshaped_data :
        \/ row.ticker \notin DOMAIN last_dates
        \/ row.date > last_dates[row.ticker] }

\* lines 72-85: to_sql(if_exists='append'); a row whose (ticker, date) is
\* stored violates the primary key, and nothing of the frame is stored
save_data_to_db(table, data) ==
    IF \E row \in data : \E r \in table : r.ticker = row.ticker /\ r.date = row.date
    THEN table
    ELSE table \cup data

\* lines 139-228: one pass of the loop.  today is the date of the run and
\* sunday tells whether it is a Sunday (lines 160-161), when the bar required is
\* the one of two days before
fetch_batch(today, sunday) ==
    /\ pc = "fetching"
    /\ LET last == IF batch_index + BATCH_SIZE < Len(tickers)
                   THEN batch_index + BATCH_SIZE ELSE Len(tickers)
           batch_tickers == {tickers[k] : k \in (batch_index + 1)..last}
           last_dates == get_last_fetch_dates_for_batch(daily_data, batch_tickers)
           new_tickers_exist == \E t \in batch_tickers : t \notin DOMAIN last_dates
           full_history == new_tickers_exist \/ DOMAIN last_dates = {}
           required_date == IF sunday THEN today - 2 ELSE today - 1
           up_to_date == ~full_history /\ MinLastDate(last_dates) >= required_date
           batch_start_date ==
               IF full_history THEN START_DATE ELSE MinLastDate(last_dates) + 1
       IN  IF up_to_date
           THEN UNCHANGED daily_data
           ELSE \E data \in Downloads(batch_tickers, batch_start_date, today) :
                   daily_data' = save_data_to_db(daily_data, rows_to_save(data, last_dates))
    /\ IF batch_index + BATCH_SIZE < Len(tickers)
       THEN /\ batch_index' = batch_index + BATCH_SIZE
            /\ UNCHANGED <<pc, tickers>>
       ELSE /\ batch_index' = 0
            /\ tickers' = <<>>
            /\ pc' = "idle"
    /\ UNCHANGED <<scan, tickers_exchange, tickers_exchange_columns>>

MaintenanceNext ==
    \/ initialize_database
    \/ \E tickers_df \in TickerFrames : save_tickers_to_db(tickers_df)
    \/ fetcher_initialize_database
    \/ load_tickers_from_db
    \/ \E today \in Dates, sunday \in BOOLEAN : fetch_batch(today, sunday)

MaintenanceSpec == MaintenanceInit /\ [][MaintenanceNext]_vars

(***************************************************************************)
(* Properties.                                                             *)
(***************************************************************************)
Range(seq) == {seq[i] : i \in 1..Len(seq)}

TickersOf(rows) == {rows[i].ticker : i \in 1..Len(rows)}

\* the number of bars the store holds for ticker t
BarCount(t) == Cardinality({r \in daily_data : r.ticker = t})

\* alternative settings of the three hard thresholds, the program's among them
ThresholdChoices ==
    {0, MIN_DOLLAR_VOLUME} \X {0, MIN_ADR_PERCENT} \X {0, MIN_CLOSE_PRICE}

\* C1: right after stage 1 a Snapshot is kept if and only if its
\* avg_dollar_volume, adr_percent and close are all defined and each is at
\* least its threshold; and under every setting of the thresholds no kept
\* Snapshot has one of the three undefined.
C1_Stage1KeepsDefinedAboveThreshold ==
    /\ ("stage1" \in steps /\ "exclusion" \notin steps) =>
         \A i \in 1..Len(merged_data) :
            LET s == merged_data[i]
            IN  (s \in Range(filtered_stocks)) <=>
                  /\ s.avg_dollar_volume # NaN
                  /\ s.adr_percent # NaN
                  /\ s.close # NaN
                  /\ ~RLess(s.avg_dollar_volume, R(MIN_DOLLAR_VOLUME))
                  /\ ~RLess(s.adr_percent, R(MIN_ADR_PERCENT))
                  /\ ~RLess(s.close, R(MIN_CLOSE_PRICE))
    /\ pc = "snapshots" =>
         \A th \in ThresholdChoices :
            \A s \in Range(HardThresholds(merged_data, th[1], th[2], th[3])) :
                s.avg_dollar_volume # NaN /\ s.adr_percent # NaN /\ s.close # NaN

\* stage 1 has kept one Snapshot and dropped another whose adr_percent is undefined
C1_Witness ==
    /\ pc = "stage1"
    /\ filtered_stocks # <<>>
    /\ \E s \in Range(merged_data) : s.adr_percent = NaN /\ s \notin Range(filtered_stocks)

\* C2: the trend filter (enabled) keeps every Snapshot of stage 2's result whose
\* ticker has exactly MA_DAYS_LONG - 1 bars, and the ma200 of such a Snapshot
\* is undefined.
C2_TrendFilterKeepsShortHistory ==
    [][(pc = "stage2" /\ pc' = "stage3" /\ USE_MA200_FILTER) =>
         \A s \in Range(filtered_stocks) :
            BarCount(s.ticker) = MA_DAYS_LONG - 1 =>
                s.ma200 = NaN /\ s \in Range(filtered_stocks')]_vars

\* the trend filter has kept a ticker with MA_DAYS_LONG - 1 bars whose close
\* lies below an earlier close of its
C2_Witness ==
    /\ pc = "stage3"
    /\ \E s \in Range(filtered_stocks) :
          /\ BarCount(s.ticker) = MA_DAYS_LONG - 1
          /\ \E r \in daily_data :
                r.ticker = s.ticker /\ r.close # NaN /\ RLess(s.close, r.close)

\* the k-th smallest (k = 0, 1, ...) defined value of a column
OrderStatistic(rows, col, k) ==
    LET defined == {i \in 1..Len(rows) : rows[i][col] # NaN}
        below(v) == Cardinality({i \in defined : RLess(rows[i][col], v)})
        upto(v) == Cardinality({i \in defined : ~RLess(v, rows[i][col])})
    IN  CHOOSE v \in {rows[i][col] : i \in defined} : below(v) <= k /\ k < upto(v)

\* the q-quantile (q = <<num, den>>) of the defined values of a column: with n
\* of them and (n - 1) * q = lo + f, 0 <= f < 1, the value (1 - f) * a_lo + f * a_hi
\* of the lo-th and the next order statistic; undefined when n = 0
ExpectedThreshold(rows, col, q) ==
    LET n == Cardinality({i \in 1..Len(rows) : rows[i][col] # NaN})
        lo == ((n - 1) * q[1]) \div q[2]
        rem == ((n - 1) * q[1]) % q[2]
    IN  IF n = 0 THEN NaN
        ELSE IF rem = 0 THEN OrderStatistic(rows, col, lo)
        ELSE RAdd(RMul(OrderStatistic(rows, col, lo), Norm(q[2] - rem, q[2])),
                  RMul(OrderStatistic(rows, col, lo + 1), Norm(rem, q[2])))

\* the tickers of the rows whose gain in a column is defined and at least thr
QualifyingTickers(rows, col, thr) ==
    {rows[i].ticker : i \in {j \in 1..Len(rows) :
        rows[j][col] # NaN /\ thr # NaN /\ ~RLess(rows[j][col], thr)}}

\* C3: the tickers of the final result are exactly the tickers of the filtered
\* Snapshots that qualify in the 1-month, the 3-month or the 6-month horizon,
\* each threshold being the configured quantile of the defined gains of the
\* filtered set.
C3_ResultIsUnionOfHorizons ==
    "ranking" \in steps =>
        /\ gain_1m_threshold = ExpectedThreshold(filtered_stocks, "gain_1m", GAIN_PERCENTILE_1M)
        /\ gain_3m_threshold = ExpectedThreshold(filtered_stocks, "gain_3m", GAIN_PERCENTILE_3M)
        /\ gain_6m_threshold = ExpectedThreshold(filtered_stocks, "gain_6m", GAIN_PERCENTILE_6M)
        /\ TickersOf(final_results) =
              QualifyingTickers(filtered_stocks, "gain_1m", gain_1m_threshold)
              \cup QualifyingTickers(filtered_stocks, "gain_3m", gain_3m_threshold)
              \cup QualifyingTickers(filtered_stocks, "gain_6m", gain_6m_threshold)

\* the result holds a ticker that qualifies in the 3-month horizon only, and a
\* filtered ticker that qualifies in no horizon is left out
C3_Witness ==
    /\ pc = "ranked"
    /\ \E t \in TickersOf(final_results) :
          /\ t \notin QualifyingTickers(filtered_stocks, "gain_1m", gain_1m_threshold)
          /\ t \in QualifyingTickers(filtered_stocks, "gain_3m", gain_3m_threshold)
    /\ TickersOf(filtered_stocks) \ TickersOf(final_results) # {}

\* C4: no ticker occurs twice in the final result, and of two entries with a
\* defined gain_1m the earlier has the larger or equal one.
C4_ResultDeduplicatedAndDescending ==
    "ranking" \in steps =>
        \A i, j \in 1..Len(final_results) :
            i < j =>
                /\ final_results[i].ticker # final_results[j].ticker
                /\ (final_results[i].gain_1m # NaN /\ final_results[j].gain_1m # NaN)
                      => ~RLess(final_results[i].gain_1m, final_results[j].gain_1m)

\* the result has two entries with different 1-month gains, one of which
\* qualifies in two horizons
C4_Witness ==
    /\ pc = "ranked"
    /\ \E i, j \in 1..Len(final_results) :
          /\ final_results[i].gain_1m # NaN /\ final_results[j].gain_1m # NaN
          /\ RLess(final_results[j].gain_1m, final_results[i].gain_1m)
    /\ QualifyingTickers(filtered_stocks, "gain_1m", gain_1m_threshold)
          \cap QualifyingTickers(filtered_stocks, "gain_3m", gain_3m_threshold) # {}

\* the number of bars of a row's ticker up to and including the row
BarsSoFar(frame, k) ==
    Cardinality({j \in 1..Len(frame) :
        frame[j].ticker = frame[k].ticker /\ frame[j].date <= frame[k].date})

\* C5: on every row of the derived series, a rolling metric whose window is
\* longer than the ticker's bars so far is undefined.
C5_ShortWindowIsNoValue ==
    "metrics" \in steps =>
        \A k \in 1..Len(df) :
            LET n == BarsSoFar(df, k)
            IN  /\ n < MA_DAYS_LONG => df[k].ma200 = NaN
                /\ n < AVG_VOL_DAYS => df[k].avg_dollar_volume = NaN
                /\ n < ADR_DAYS => df[k].adr_percent = NaN
                /\ n < GAIN_DAYS_1M => df[k].gain_1m = NaN
                /\ n < GAIN_DAYS_3M => df[k].gain_3m = NaN
                /\ n < GAIN_DAYS_6M => df[k].gain_6m = NaN

\* a row with a defined 1-month gain whose window for the 3-month gain is not
\* full, in a series that later has a defined ma200
C5_Witness ==
    /\ pc = "metrics"
    /\ \E k, m \in 1..Len(df) :
          /\ df[k].gain_1m # NaN /\ df[k].gain_3m = NaN /\ df[k].low # NaN
          /\ BarsSoFar(df, k) < GAIN_DAYS_3M
          /\ df[m].ticker = df[k].ticker /\ df[m].ma200 # NaN

\* settings of GAIN_PERCENTILE_1M between 0 and 1, the program's among them
PercentileGrid == {<<0, 1>>, <<1, 4>>, GAIN_PERCENTILE_1M, <<3, 5>>, <<3, 4>>, <<1, 1>>}

\* the 1-month qualifiers of the filtered set when GAIN_PERCENTILE_1M is q
Qualifiers1m(q) ==
    Range(TopGainers(filtered_stocks, "gain_1m",
                     quantile(Column(filtered_stocks, "gain_1m"), q)))

\* C6: for the filtered set the ranking starts from, raising the 1-month
\* percentile from p to q never adds a 1-month qualifier.
C6_QualifiersShrinkWithPercentile ==
    pc = "stage3" =>
        \A p, q \in PercentileGrid :
            ~RLess(q, p) => Qualifiers1m(q) \subseteq Qualifiers1m(p)

\* a filtered set that loses a qualifier, and keeps one, when the percentile
\* is raised
C6_Witness ==
    /\ pc = "stage3"
    /\ \E p, q \in PercentileGrid :
          /\ RLess(p, q)
          /\ Qualifiers1m(q) # {}
          /\ Qualifiers1m(q) # Qualifiers1m(p)

\* settings of the exclusion lists and of the trend-filter switch
FilterChoices ==
    {{}, {"Healthcare"}, {"Technology"}} \X {{}, {"Biotechnology"}, {"Software"}} \X BOOLEAN

\* the filter with its stages in the order 1, 2, 3 and in the order 2, 1, 3
Filter123(rows, sectors, industries, use_ma200) ==
    TrendFilter(
        ExcludeCategories(
            HardThresholds(rows, MIN_DOLLAR_VOLUME, MIN_ADR_PERCENT, MIN_CLOSE_PRICE),
            sectors, industries),
        use_ma200)

Filter213(rows, sectors, industries, use_ma200) ==
    TrendFilter(
        HardThresholds(ExcludeCategories(rows, sectors, industries),
                       MIN_DOLLAR_VOLUME, MIN_ADR_PERCENT, MIN_CLOSE_PRICE),
        use_ma200)

\* C7: on the Snapshots of a run the stages give the same set in the order
\* 1, 2, 3 as in the order 2, 1, 3, filtering the result again removes nothing,
\* and the run's own filtered set is that result.
C7_FilterOrderIndependentIdempotent ==
    /\ pc = "snapshots" =>
         \A c \in FilterChoices :
            LET once == Filter123(merged_data, c[1], c[2], c[3])
            IN  /\ Range(once) = Range(Filter213(merged_data, c[1], c[2], c[3]))
                /\ Filter123(once, c[1], c[2], c[3]) = once
    /\ pc = "stage3" =>
         /\ filtered_stocks =
               Filter123(merged_data, EXCLUDED_SECTORS, EXCLUDED_INDUSTRIES, USE_MA200_FILTER)
         /\ Range(filtered_stocks) =
               Range(Filter213(merged_data, EXCLUDED_SECTORS, EXCLUDED_INDUSTRIES,
                               USE_MA200_FILTER))
         /\ Filter123(filtered_stocks, EXCLUDED_SECTORS, EXCLUDED_INDUSTRIES,
                      USE_MA200_FILTER) = filtered_stocks

\* a run in which stage 1 removed a Snapshot, stages 2 and 3 removed another
\* and one is left
C7_Witness ==
    /\ pc = "stage3"
    /\ filtered_stocks # <<>>
    /\ LET passed == HardThresholds(merged_data, MIN_DOLLAR_VOLUME, MIN_ADR_PERCENT,
                                    MIN_CLOSE_PRICE)
       IN  Len(filtered_stocks) < Len(passed) /\ Len(passed) < Len(merged_data)

\* a written watchlist for a result of exactly a NASDAQ stock, then an AMEX fund
StockThenFundExported ==
    /\ pc = "done"
    /\ watchlist_file # NoFile
    /\ Len(final_results) = 2
    /\ final_results[1].asset_class = "Stock" /\ final_results[1].exchange = "NASDAQ"
    /\ final_results[2].asset_class = "Fund" /\ final_results[2].exchange = "AMEX"

\* C8 as claimed: for a stock X ranked first and a fund Y ranked second the
\* text written is ###Stocks,NASDAQ:X,###Funds,AMEX:Y.
C8_StocksGroupFirst ==
    StockThenFundExported =>
        watchlist_file = "###Stocks,NASDAQ:" \o final_results[1].ticker
                         \o ",###Funds,AMEX:" \o final_results[2].ticker

\* C8 amended: for a stock X ranked first and a fund Y ranked second the text
\* written is ###Funds,AMEX:Y,###Stocks,NASDAQ:X (the groups come in ascending
\* order of asset_class).
C8_GroupsInAscendingOrder ==
    StockThenFundExported =>
        watchlist_file = "###Funds,AMEX:" \o final_results[2].ticker
                         \o ",###Stocks,NASDAQ:" \o final_results[1].ticker

\* the watchlist of stock X before fund Y has been written
C8_Witness ==
    /\ StockThenFundExported
    /\ final_results[1].ticker = "X"
    /\ final_results[2].ticker = "Y"

\* C9 as claimed: after the snapshot extraction there is exactly one Snapshot
\* for every ticker with at least one bar, with or without a profile, and none
\* for any other ticker.
C9_OneSnapshotPerTickerWithBars ==
    "snapshot" \in steps =>
        \A t \in Tickers :
            Cardinality({i \in 1..Len(merged_data) : merged_data[i].ticker = t})
                = IF BarCount(t) >= 1 THEN 1 ELSE 0

\* reading one of the two tables has failed
LoadFailed == \E i \in 1..Len(stdout) : stdout[i] = "Error loading data from database"

\* C10: once a read of the store has failed, run_scan has ended, and no step
\* after the load has run, no result has been computed and no file is written.
C10_LoadFailureAborts ==
    LoadFailed =>
        /\ pc = "done"
        /\ steps = {}
        /\ latest_data = <<>> /\ merged_data = <<>> /\ filtered_stocks = <<>>
        /\ final_results = <<>>
        /\ watchlist_file = NoFile

\* the read of the profiles has failed over a store that holds bars
C10_Witness ==
    /\ LoadFailed
    /\ pc = "done"
    /\ df # {}

\* whether a message has been printed
Printed(msg) == \E i \in 1..Len(stdout) : stdout[i] = msg

\* C11: once an empty result has been exported, no file is written and no
\* watchlist text produced, "No tickers to export." is the last message
\* printed, no failure of the export is reported and run_scan has ended.
C11_EmptyExportWritesNothing ==
    ("export" \in steps /\ final_results = <<>>) =>
        /\ watchlist_file = NoFile
        /\ stdout[Len(stdout)] = "No tickers to export."
        /\ ~Printed("Generating TradingView watchlist file...")
        /\ ~Printed("An error occurred while generating the watchlist file")
        /\ pc = "done"

\* an empty result has been exported after a ranking over a filtered set that
\* is not empty
C11_Witness ==
    /\ "export" \in steps
    /\ final_results = <<>>
    /\ filtered_stocks # <<>>
    /\ pc = "done"

\* the bars the store holds for ticker t
OwnBars(t) == {r \in daily_data : r.ticker = t}

\* bars of the tickers other than t that differ from those of the store: none,
\* the first day of those of the store, and two bars of another kind for each
\* of them
OtherBars(t) ==
    LET others == daily_data \ OwnBars(t)
        two == [i \in 1..2 |-> Bar(R(1), R(1), R(1), R(1000000))]
    IN  { {}, {r \in others : r.date = 1},
          {r \in BarRows([u \in Tickers |-> two]) : r.ticker # t} } \ {others}

\* C12: the derived rows of a ticker in the frame of the run are the derived
\* rows it gets from its own bars together with any other bars of the other
\* tickers (none, fewer, changed, or more).
C12_DerivedSeriesPerTicker ==
    pc = "metrics" =>
        \A t \in {u \in Tickers : OwnBars(u) # {}} :
            \A others \in OtherBars(t) :
                Group(CalculateMetrics(OwnBars(t) \cup others), t) = Group(df, t)

\* the metrics of a store where a ticker with defined 1-month gains comes
\* after another ticker whose bars differ from its own
C12_Witness ==
    /\ pc = "metrics"
    /\ \E k \in 2..Len(df) :
          /\ df[k].gain_1m # NaN
          /\ df[k].ticker # df[1].ticker
          /\ df[1].low # df[k].low

\* the row of the latest date among the derived rows of ticker t
LatestRow(t) ==
    CHOOSE r \in Range(Group(df, t)) : \A q \in Range(Group(df, t)) : q.date <= r.date

\* C13 as claimed: every field of a ticker's Snapshot is the value of that
\* field on the ticker's latest-dated row, undefined when it is undefined there.
C13_SnapshotIsLatestRow ==
    "snapshot" \in steps =>
        \A i \in 1..Len(merged_data) :
            LET s == merged_data[i]
                r == LatestRow(s.ticker)
            IN  /\ s.close = r.close
                /\ s.ma200 = r.ma200
                /\ s.avg_dollar_volume = r.avg_dollar_volume
                /\ s.adr_percent = r.adr_percent
                /\ s.gain_1m = r.gain_1m
                /\ s.gain_3m = r.gain_3m
                /\ s.gain_6m = r.gain_6m

\* C14 as claimed: whenever the filtered set is empty after stage 1, 2 or 3,
\* neither the thresholds are computed nor the ranking is done, the result is
\* empty and no error is reported.
C14_EmptyFilteredSetSkipsRanking ==
    ("stage1" \in steps /\ filtered_stocks = <<>>) =>
        /\ "thresholds" \notin steps
        /\ "ranking" \notin steps
        /\ final_results = <<>>
        /\ ~Printed("Error loading data from database")

\* whether Snapshot s passes the three stages of the filter
MeetsCriteria(s) ==
    /\ s.avg_dollar_volume # NaN /\ ~RLess(s.avg_dollar_volume, R(MIN_DOLLAR_VOLUME))
    /\ s.adr_percent # NaN /\ ~RLess(s.adr_percent, R(MIN_ADR_PERCENT))
    /\ s.close # NaN /\ ~RLess(s.close, R(MIN_CLOSE_PRICE))
    /\ s.sector \notin EXCLUDED_SECTORS
    /\ s.industry \notin EXCLUDED_INDUSTRIES
    /\ USE_MA200_FILTER => (s.ma200 = NaN \/ ~RLess(s.close, s.ma200))

\* C17: every entry of the final result is a Snapshot of the filtered set and
\* meets the hard thresholds with defined values, the exclusion lists and the
\* trend filter; a written watchlist is the text of that result.
C17_ResultWithinFilteredSet ==
    /\ \A i \in 1..Len(final_results) :
          /\ final_results[i] \in Range(filtered_stocks)
          /\ final_results[i] \in Range(merged_data)
          /\ MeetsCriteria(final_results[i])
    /\ watchlist_file # NoFile => watchlist_file = WatchlistString(final_results)

\* a result has been ranked and exported while a Snapshot the filter removed
\* has a 1-month gain at or above the threshold
C17_Witness ==
    /\ pc = "done"
    /\ watchlist_file # NoFile
    /\ final_results # <<>>
    /\ \E s \in Range(merged_data) :
          /\ s \notin Range(filtered_stocks)
          /\ s.gain_1m # NaN
          /\ ~RLess(s.gain_1m, gain_1m_threshold)

\* C15 as claimed: whenever the ticker-list script has ended, table
\* tickers_exchange has the columns ticker, exchange, asset_class, sector and
\* industry, and the profile query of run_scan succeeds.
C15_TickerListKeepsSchema ==
    (pc = "idle" /\ tickers_exchange_columns # NoTable) =>
        /\ tickers_exchange_columns = TableColumns
        /\ ProfileQuerySucceeds

\* the rows stored for ticker t
StoredBars(t) == {r \in daily_data : r.ticker = t}

====
